---- MODULE Spec2Model ----
(***************************************************************************)
(* Self-clearing alarm primitive: alarm_pulse (helper/redis_utility.py),   *)
(* the reset worker's reset_loop (watcher/alarm_reset_worker.py) and the   *)
(* flag reader (modbus/modbus_writer.py), all talking to one Redis store.  *)
(* Every Redis call is one atomic step; a MULTI/EXEC pipeline is one step. *)
(* The clock is counted in ticks of the worker's tolerance (0.001 s).      *)
(***************************************************************************)
EXTENDS Integers, Sequences, FiniteSets, TLC

\* ------------------------------------------------------------------ bounds
MaxTime == 2
MaxPulses == 2
MaxOob == 2
MaxCrashes == 1
batch == 2

\* -------------------------------------------------------- program constants
\* abs(latest_due - float(score)) < 0.001, in ticks of 0.001 s
Tol == 1

DUE_ZSET == "alarm:pulse_due"
TOKEN_PREFIX == "alarm:pulse_token:"
Sep == "|"

\* -------------------------------------------------------------- processes
Producers == {"p1", "p2"}
Workers == {"w1", "w2"}
Durations == {1, 2}

\* ------------------------------------------------------------------ values
None == <<>>
Some(v) == <<v>>
IsNone(o) == o = <<>>
Val(o) == o[1]

Namespaces == {<<"h">>}
Fields == {<<"a">>, <<"b", Sep, "c">>}
FlagKeys == Namespaces \X Fields
\* member strings that never come from alarm_pulse (no separator)
Malformed == {<<"x">>}

\* member = f"{redis_hash}|{redis_key}"
Member(ns, f) == ns \o <<Sep>> \o f
\* token_key = f"{TOKEN_PREFIX}{redis_hash}|{redis_key}"
TokenKey(ns, f) == <<TOKEN_PREFIX>> \o ns \o <<Sep>> \o f
MemberOf(k) == Member(k[1], k[2])
TokenKeyOf(k) == TokenKey(k[1], k[2])

WellFormed == {MemberOf(k) : k \in FlagKeys}
MemberStrings == WellFormed \cup Malformed
TokenKeys == {TokenKeyOf(k) : k \in FlagKeys}

\* str(due): a numeric string; float(token) parses it back or raises ValueError
Str(due) == [num |-> TRUE, val |-> due]
Garbage == [num |-> FALSE, val |-> 0]
\* try: latest_due = float(token) / except ValueError: latest_due = None
Float(tok) == IF tok.num THEN Some(tok.val) ELSE None

\* member.split("|", 1): the list of parts, cut at the first separator only
SepPos(s) ==
  IF \E i \in 1..Len(s) : s[i] = Sep
  THEN CHOOSE i \in 1..Len(s) : s[i] = Sep /\ \A j \in 1..(i - 1) : s[j] # Sep
  ELSE 0
Split(s) ==
  IF SepPos(s) = 0 THEN <<s>>
  ELSE <<SubSeq(s, 1, SepPos(s) - 1), SubSeq(s, SepPos(s) + 1, Len(s))>>

Abs(x) == IF x < 0 THEN -x ELSE x

VARIABLES
  now,        \* the wall clock all participants share
  hash,       \* the namespace hashes: (namespace, field) -> None | Some(0/1)
  zset,       \* the due index: a set of <<member, score>> entries
  token,      \* token keys -> None | Some(token string)
  ppc, pkey, pdue, pdur,             \* producers (callers of alarm_pulse)
  wpc, wnow, wmembers, widx, wscore, wtoken, wbranch,   \* reset workers
  pulses,     \* pulses started so far (bounded by MaxPulses)
  oobs,       \* out-of-band writes so far (bounded by MaxOob)
  crashes,    \* worker terminations so far (bounded by MaxCrashes)
  \* history variables: written, never read by the program's actions
  lastDue,    \* due of the pulse that committed last on a flag key
  lastDur,    \* its duration_sec
  commits,    \* pulses committed on a flag key: 0, 1, 2 (= several)
  povertaken, \* another pulse on the same member committed since this
              \* producer read the clock
  wpulsed,    \* a pulse on the worker's current member committed since the
              \* worker re-read its score
  wslept,     \* the worker slept since it last started a sweep (or has not
              \* started one yet)
  wseen,      \* for each worker whose queries are recorded: the members a
              \* range query of it returned whose index entry no one has
              \* written or removed since
  \* the uploader job thread (uploader/main.py) and its local directory
  upc,        \* position of the job thread in upload_newest_file
  ucursor,    \* cursor: <<mtime, name>> of the last file processed
  usaved,     \* the cursor state file: None, or Some(<<mtime, name>>)
  ubackoff,   \* backoff, in seconds
  ucand,      \* candidate: None, or Some(name) of the file selected
  ufiles,     \* the local directory: name -> None | Some(mtime)
  fileops,    \* changes made to the local directory so far
  failures,   \* calls of the uploader that raised so far
  \* history variables of the uploader
  ucandkey,   \* <<mtime, name>> the candidate had when it was selected
  udone,      \* keys sftp_upload returned for since the thread started
  ufailed     \* keys whose upload raised

store == <<hash, zset, token>>
pvars == <<ppc, pkey, pdue, pdur, povertaken, pulses>>
wvars == <<wpc, wnow, wmembers, widx, wscore, wtoken, wbranch>>
hist == <<lastDue, lastDur, commits, wpulsed, wslept, wseen>>
uvars == <<upc, ucursor, usaved, ubackoff, ucand, ufiles, fileops, failures,
           ucandkey, udone, ufailed>>
vars == <<now, hash, zset, token, ppc, pkey, pdue, pdur,
          wpc, wnow, wmembers, widx, wscore, wtoken, wbranch,
          pulses, oobs, crashes, lastDue, lastDur, commits, povertaken,
          wpulsed, wslept, wseen, upc, ucursor, usaved, ubackoff, ucand, ufiles, fileops,
          failures, ucandkey, udone, ufailed>>

\* ------------------------------------------------------ the store (Redis)
\* HGET hash field
HGet(k) == hash[k]
\* ZSCORE: the member's score, None when the member is not in the index
ZScore(m) ==
  IF \E e \in zset : e[1] = m
  THEN Some((CHOOSE e \in zset : e[1] = m)[2])
  ELSE None
\* (mutant) ZADD that keeps the member's old entry beside the new one
ZAddKeepsOld(z, m, s) == z \cup {<<m, s>>}
\* ZADD {member: score}: upsert, overwriting any prior score of the member
ZAdd(z, m, s) == {e \in z : e[1] # m} \cup {<<m, s>>}
\* ZREM member
ZRem(z, m) == {e \in z : e[1] # m}
\* GET key
Get(key) == token[key]

\* ZRANGEBYSCORE -inf max LIMIT 0 num: up to num members with score <= max,
\* smallest scores first; the order among equal scores is left open.
\* (mutant) a range query that ignores its upper bound
DueIgnoresMax(max) == zset
Due(max) == {e \in zset : e[2] <= max}
ZRangeByScore(max, num) ==
  LET cand == Due(max)
      n == IF Cardinality(cand) < num THEN Cardinality(cand) ELSE num
  IN {[i \in 1..n |-> s[i][1]] : s \in
        {t \in [1..n -> cand] :
           /\ \A i, j \in 1..n : i < j => t[i] # t[j] /\ t[i][2] <= t[j][2]
           /\ \A e \in cand : (\A i \in 1..n : t[i] # e) =>
                                \A i \in 1..n : t[i][2] <= e[2]}}

\* ------------------------------------------------- the uploader's values
\* the uploader's clock is counted in ticks of 30 s and runs to MaxUpTime
MaxUpTime == 3
MaxFileOps == 3
MaxFailures == 2
\* settle_sec = 60.0
settle_sec == 2
\* alarm_pulse's default duration_sec (22 s), rounded up to one tick
DefaultDuration == 1
\* backoff = 2.0 and backoff_max = 45.0, in seconds
BackoffStart == 2
backoff_max == 45

\* file names of the local directory, in the order Python compares strings;
\* the empty string of a fresh cursor sorts before every name
FileNames == <<"a", "b">>
NameSet == {FileNames[i] : i \in 1..Len(FileNames)}
NameRank(n) == IF n = "" THEN 0 ELSE CHOOSE i \in 1..Len(FileNames) : FileNames[i] = n
\* comparison of (float, str) tuples: k1 < k2 and k1 <= k2
KeyLess(k1, k2) ==
  \/ k1[1] < k2[1]
  \/ k1[1] = k2[1] /\ NameRank(k1[2]) < NameRank(k2[2])
KeyLeq(k1, k2) == k1 = k2 \/ KeyLess(k1, k2)

\* the health fields the job pulses: f"{health_sftp_connect_key}:{job_name}"
\* and f"{health_sftp_upload_key}:{job_name}" in health_hash
HealthConnectKey == <<<<"h">>, <<"a">>>>
HealthUploadKey == <<<<"h">>, <<"b", Sep, "c">>>>

\* Cursor(mtime=0.0, name="")
FreshCursor == <<0, "">>
\* load_cursor: the saved cursor, a fresh one when the file cannot be read
load_cursor(saved) == IF IsNone(saved) THEN FreshCursor ELSE Val(saved)

UpInit ==
  /\ upc = "off"
  /\ ucursor = FreshCursor
  /\ usaved = None
  /\ ubackoff = BackoffStart
  /\ ucand = None
  /\ ufiles = [n \in NameSet |-> None]
  /\ fileops = 0
  /\ failures = 0
  /\ ucandkey = None
  /\ udone = {}
  /\ ufailed = {}

\* ------------------------------------------------------------------- Init
InitBase ==
  /\ now = 0
  /\ hash = [k \in FlagKeys |-> None]
  /\ zset = {}
  /\ token = [k \in TokenKeys |-> None]
  /\ ppc = [p \in Producers |-> "idle"]
  /\ pkey = [p \in Producers |-> None]
  /\ pdue = [p \in Producers |-> 0]
  /\ pdur = [p \in Producers |-> 0]
  /\ povertaken = [p \in Producers |-> FALSE]
  /\ wpc = [w \in Workers |-> "loop"]
  /\ wnow = [w \in Workers |-> 0]
  /\ wmembers = [w \in Workers |-> <<>>]
  /\ widx = [w \in Workers |-> 0]
  /\ wscore = [w \in Workers |-> None]
  /\ wtoken = [w \in Workers |-> None]
  /\ wbranch = [w \in Workers |-> "none"]
  /\ pulses = 0
  /\ oobs = 0
  /\ crashes = 0
  /\ lastDue = [k \in FlagKeys |-> None]
  /\ lastDur = [k \in FlagKeys |-> 0]
  /\ commits = [k \in FlagKeys |-> 0]
  /\ wpulsed = [w \in Workers |-> FALSE]
  /\ wslept = [w \in Workers |-> TRUE]
  /\ UpInit

\* no worker's queries are recorded
Init == InitBase /\ wseen = [w \in {} |-> {}]
\* the queries of worker w1 are recorded
InitRecorded == InitBase /\ wseen = [w \in {"w1"} |-> {}]

\* ------------------------------------------------------------------ clock
Tick ==
  /\ now < MaxTime
  /\ now' = now + 1
  /\ UNCHANGED <<uvars, store, pvars, wvars, hist, oobs, crashes>>

\* ------------------------------------------------------------ alarm_pulse
\* now = time.time(); due = now + duration_sec; member and token_key built
PulseStart(p, k, d) ==
  /\ ppc[p] = "idle"
  /\ pulses < MaxPulses
  /\ now + d <= MaxTime
  /\ ppc' = [ppc EXCEPT ![p] = "commit"]
  /\ pkey' = [pkey EXCEPT ![p] = Some(k)]
  /\ pdue' = [pdue EXCEPT ![p] = now + d]
  /\ pdur' = [pdur EXCEPT ![p] = d]
  /\ pulses' = pulses + 1
  /\ UNCHANGED <<uvars, now, store, wvars, hist, oobs, crashes, povertaken>>

\* (mutant) a pulse that never moves an existing score or token backward
PulseBatchKeepsMax(k, due) ==
  /\ hash' = [hash EXCEPT ![k] = Some(1)]
  /\ token' = [token EXCEPT ![TokenKeyOf(k)] =
                 IF ~IsNone(@) /\ Val(@).val > due THEN @ ELSE Some(Str(due))]
  /\ zset' = IF \E e \in zset : e[1] = MemberOf(k) /\ e[2] > due
             THEN zset ELSE ZAdd(zset, MemberOf(k), due)
\* the pipeline's three writes, applied as one transaction
PulseBatch(k, due) ==
  /\ hash' = [hash EXCEPT ![k] = Some(1)]
  /\ token' = [token EXCEPT ![TokenKeyOf(k)] = Some(Str(due))]
  /\ zset' = ZAdd(zset, MemberOf(k), due)

\* member m's index entry is written or removed: no worker's wseen keeps m
Forget(m) == wseen' = [v \in DOMAIN wseen |-> wseen[v] \ {m}]
HistKept == <<lastDue, lastDur, commits, wpulsed, wslept>>

\* worker w has re-read the score of k's member and not yet read its token
BetweenReads(w, k) == wpc[w] = "token" /\ wmembers[w][widx[w]] = MemberOf(k)

\* pipe.execute() succeeds and alarm_pulse returns
PulseCommit(p) ==
  /\ ppc[p] = "commit"
  /\ PulseBatch(Val(pkey[p]), pdue[p])
  /\ ppc' = [ppc EXCEPT ![p] = "returned"]
  /\ lastDue' = [lastDue EXCEPT ![Val(pkey[p])] = Some(pdue[p])]
  /\ lastDur' = [lastDur EXCEPT ![Val(pkey[p])] = pdur[p]]
  /\ commits' = [commits EXCEPT ![Val(pkey[p])] = IF @ = 0 THEN 1 ELSE 2]
  /\ povertaken' = [q \in Producers |->
                      povertaken[q] \/ (q # p /\ ppc[q] = "commit" /\ pkey[q] = pkey[p])]
  /\ wpulsed' = [w \in Workers |-> wpulsed[w] \/ BetweenReads(w, Val(pkey[p]))]
  /\ wslept' = wslept
  /\ Forget(MemberOf(Val(pkey[p])))
  /\ UNCHANGED <<uvars, now, pkey, pdue, pdur, pulses, wvars, oobs, crashes>>

ProducerReset(p) ==
  /\ ppc' = [ppc EXCEPT ![p] = "idle"]
  /\ pkey' = [pkey EXCEPT ![p] = None]
  /\ pdue' = [pdue EXCEPT ![p] = 0]
  /\ pdur' = [pdur EXCEPT ![p] = 0]
  /\ povertaken' = [povertaken EXCEPT ![p] = FALSE]

\* pipe.execute() raises (store unavailable): nothing is applied, no retry
PulseFail(p) ==
  /\ ppc[p] = "commit"
  /\ ProducerReset(p)
  /\ UNCHANGED <<uvars, now, store, pulses, wvars, hist, oobs, crashes>>

\* val = redis_db.hget(hash, field), an absent field read as 0
FlagValue(k) == IF IsNone(HGet(k)) THEN 0 ELSE Val(HGet(k))
\* the flag read issued right after alarm_pulse returned; its result is
\* FlagValue of the state it is taken in
FlagRead(p) ==
  /\ ppc[p] = "returned"
  /\ ProducerReset(p)
  /\ UNCHANGED <<uvars, now, store, pulses, wvars, hist, oobs, crashes>>

\* ------------------------------------------------------------- reset_loop
CurMember(w) == wmembers[w][widx[w]]
\* redis_hash, redis_key = member.split("|", 1) raises ValueError unless the
\* list has exactly two parts
Unpacks(m) == Len(Split(m)) = 2
CurKey(w) == <<Split(CurMember(w))[1], Split(CurMember(w))[2]>>
CurTokenKey(w) == TokenKey(CurKey(w)[1], CurKey(w)[2])

\* the worker has finished the store call of its branch for the current
\* candidate; the branch taken is kept until the loop moves on
Finish(w, branch) ==
  /\ wbranch' = [wbranch EXCEPT ![w] = branch]
  /\ wpc' = [wpc EXCEPT ![w] = "done"]
  /\ UNCHANGED <<wnow, wmembers, widx, wscore, wtoken>>

\* (mutant) the worker sleeps poll_interval after the last candidate too
ContinueSleeps(w) ==
  /\ wpc[w] = "done"
  /\ wbranch' = [wbranch EXCEPT ![w] = "none"]
  /\ wscore' = [wscore EXCEPT ![w] = None]
  /\ wtoken' = [wtoken EXCEPT ![w] = None]
  /\ IF widx[w] < Len(wmembers[w])
     THEN /\ widx' = [widx EXCEPT ![w] = @ + 1]
          /\ wpc' = [wpc EXCEPT ![w] = "iter"]
          /\ wmembers' = wmembers
     ELSE /\ widx' = [widx EXCEPT ![w] = 0]
          /\ wpc' = [wpc EXCEPT ![w] = "sleep"]
          /\ wmembers' = [wmembers EXCEPT ![w] = <<>>]
  /\ wpulsed' = [wpulsed EXCEPT ![w] = FALSE]
  /\ UNCHANGED <<uvars, now, store, pvars, lastDue, lastDur, commits, wslept,
                 wseen, oobs, crashes, wnow>>

\* `continue` / end of the for body: the next candidate of the batch, or,
\* after the last one, back to the top of `while True` (no sleep)
Continue(w) ==
  /\ wpc[w] = "done"
  /\ wbranch' = [wbranch EXCEPT ![w] = "none"]
  /\ wscore' = [wscore EXCEPT ![w] = None]
  /\ wtoken' = [wtoken EXCEPT ![w] = None]
  /\ IF widx[w] < Len(wmembers[w])
     THEN /\ widx' = [widx EXCEPT ![w] = @ + 1]
          /\ wpc' = [wpc EXCEPT ![w] = "iter"]
          /\ wmembers' = wmembers
     ELSE /\ widx' = [widx EXCEPT ![w] = 0]
          /\ wpc' = [wpc EXCEPT ![w] = "loop"]
          /\ wmembers' = [wmembers EXCEPT ![w] = <<>>]
  /\ wpulsed' = [wpulsed EXCEPT ![w] = FALSE]
  /\ UNCHANGED <<uvars, now, store, pvars, lastDue, lastDur, commits, wslept,
                 wseen, oobs, crashes, wnow>>

\* now = time.time()
ReadClock(w) ==
  /\ wpc[w] = "loop"
  /\ wnow' = [wnow EXCEPT ![w] = now]
  /\ wpc' = [wpc EXCEPT ![w] = "query"]
  /\ wslept' = [wslept EXCEPT ![w] = FALSE]
  /\ UNCHANGED <<uvars, now, store, pvars, lastDue, lastDur, commits, wpulsed,
                 wseen, oobs, crashes, wmembers, widx, wscore, wtoken, wbranch>>

\* members = zrangebyscore(due_zset, "-inf", now, start=0, num=batch);
\* an empty result sends the worker to sleep
Query(w) ==
  /\ wpc[w] = "query"
  /\ \E ms \in ZRangeByScore(wnow[w], batch) :
       /\ wmembers' = [wmembers EXCEPT ![w] = ms]
       /\ widx' = [widx EXCEPT ![w] = IF ms = <<>> THEN 0 ELSE 1]
       /\ wpc' = [wpc EXCEPT ![w] = IF ms = <<>> THEN "sleep" ELSE "iter"]
  /\ wnow' = [wnow EXCEPT ![w] = 0]
  /\ wseen' = [v \in DOMAIN wseen |->
                IF v = w THEN wseen[v] \cup {wmembers'[w][i] : i \in 1..Len(wmembers'[w])}
                ELSE wseen[v]]
  /\ UNCHANGED <<uvars, now, store, pvars, lastDue, lastDur, commits, wpulsed,
                 wslept, oobs, crashes, wscore, wtoken, wbranch>>

\* time.sleep(poll_interval); continue
Wake(w) ==
  /\ wpc[w] = "sleep"
  /\ wpc' = [wpc EXCEPT ![w] = "loop"]
  /\ wslept' = [wslept EXCEPT ![w] = TRUE]
  /\ UNCHANGED <<uvars, now, store, pvars, lastDue, lastDur, commits, wpulsed,
                 wseen, oobs, crashes, wnow, wmembers, widx, wscore, wtoken, wbranch>>

\* (mutant) the ValueError of the unpacking is not caught: the worker dies
DropBadRaises(w) ==
  /\ wpc' = [wpc EXCEPT ![w] = "crashed"]
  /\ UNCHANGED <<uvars, now, store, pvars, hist, oobs, crashes,
                 wnow, wmembers, widx, wscore, wtoken, wbranch>>

\* (mutant) a malformed member is skipped and stays in the index
DropBadKeepsEntry(w) ==
  /\ zset' = zset
  /\ Finish(w, "bad")
  /\ wseen' = wseen
  /\ UNCHANGED <<uvars, now, hash, token, pvars, HistKept, oobs, crashes>>

\* except ValueError: redis_db.zrem(due_zset, member); continue
DropBad(w) ==
  /\ zset' = ZRem(zset, CurMember(w))
  /\ Finish(w, "bad")
  /\ Forget(CurMember(w))
  /\ UNCHANGED <<uvars, now, hash, token, pvars, HistKept, oobs, crashes>>

\* (mutant) a member whose score is gone is cleared instead of skipped
ReadScoreClearsAbsent(w) ==
  /\ IF IsNone(ZScore(CurMember(w)))
     THEN /\ hash' = [hash EXCEPT ![CurKey(w)] = Some(0)]
          /\ Finish(w, "skip")
     ELSE /\ wscore' = [wscore EXCEPT ![w] = ZScore(CurMember(w))]
          /\ wpc' = [wpc EXCEPT ![w] = "token"]
          /\ hash' = hash
          /\ UNCHANGED <<wnow, wmembers, widx, wtoken, wbranch>>
  /\ UNCHANGED <<uvars, now, zset, token, pvars, hist, oobs, crashes>>

\* score = zscore(due_zset, member); if score is None: continue
ReadScore(w) ==
  /\ IF IsNone(ZScore(CurMember(w)))
     THEN Finish(w, "skip")
     ELSE /\ wscore' = [wscore EXCEPT ![w] = ZScore(CurMember(w))]
          /\ wpc' = [wpc EXCEPT ![w] = "token"]
          /\ UNCHANGED <<wnow, wmembers, widx, wtoken, wbranch>>
  /\ UNCHANGED <<uvars, now, store, pvars, hist, oobs, crashes>>

\* for member in members: try the split, then the first store call of the
\* body: the zrem of a malformed member, or the score re-read
Iterate(w) ==
  /\ wpc[w] = "iter"
  /\ IF ~Unpacks(CurMember(w)) THEN DropBad(w) ELSE ReadScore(w)

\* (mutant) the token taken from the snapshot the score was read in
ReadTokenWithScore(w) ==
  /\ wpc[w] = "token"
  /\ wtoken' = [wtoken EXCEPT ![w] = Some(Str(Val(wscore[w])))]
  /\ wpc' = [wpc EXCEPT ![w] = "resolve"]
  /\ UNCHANGED <<uvars, now, store, pvars, hist, oobs, crashes,
                 wnow, wmembers, widx, wscore, wbranch>>

\* token = redis_db.get(token_key)
ReadToken(w) ==
  /\ wpc[w] = "token"
  /\ wtoken' = [wtoken EXCEPT ![w] = Get(CurTokenKey(w))]
  /\ wpc' = [wpc EXCEPT ![w] = "resolve"]
  /\ UNCHANGED <<uvars, now, store, pvars, hist, oobs, crashes,
                 wnow, wmembers, widx, wscore, wbranch>>

\* (mutant) the token string compared with the float score: never equal
MatchesStrWithFloat(tok, score) ==
  /\ ~IsNone(Float(tok))
  /\ tok.val = score /\ ~tok.num

\* latest_due is not None and abs(latest_due - float(score)) < 0.001
Matches(tok, score) ==
  /\ ~IsNone(Float(tok))
  /\ Abs(Val(Float(tok)) - score) < Tol

\* (mutant) the no-token branch only removes the index entry
NoTokenBatchKeepsFlag(w) ==
  /\ hash' = hash
  /\ zset' = ZRem(zset, CurMember(w))
  /\ token' = token
  /\ Finish(w, "notoken")
  /\ Forget(CurMember(w))
  /\ UNCHANGED <<uvars, now, pvars, HistKept, oobs, crashes>>

\* if token is None: pipeline(hset 0, zrem).execute(); continue
NoTokenBatch(w) ==
  /\ hash' = [hash EXCEPT ![CurKey(w)] = Some(0)]
  /\ zset' = ZRem(zset, CurMember(w))
  /\ token' = token
  /\ Finish(w, "notoken")
  /\ Forget(CurMember(w))
  /\ UNCHANGED <<uvars, now, pvars, HistKept, oobs, crashes>>

\* (mutant) the match batch without its zrem
MatchBatchKeepsEntry(w) ==
  /\ hash' = [hash EXCEPT ![CurKey(w)] = Some(0)]
  /\ zset' = zset
  /\ token' = [token EXCEPT ![CurTokenKey(w)] = None]
  /\ Finish(w, "match")
  /\ wseen' = wseen
  /\ UNCHANGED <<uvars, now, pvars, HistKept, oobs, crashes>>

\* (mutant) the three writes sent without a transaction: the process can die
\* after the hset, before the zrem and the delete
MatchBatchTorn(w) ==
  \/ /\ hash' = [hash EXCEPT ![CurKey(w)] = Some(0)]
     /\ zset' = ZRem(zset, CurMember(w))
     /\ token' = [token EXCEPT ![CurTokenKey(w)] = None]
        /\ Finish(w, "match")
     /\ Forget(CurMember(w))
     /\ UNCHANGED <<uvars, now, pvars, HistKept, oobs, crashes>>
  \/ /\ hash' = [hash EXCEPT ![CurKey(w)] = Some(0)]
     /\ zset' = zset
     /\ token' = token
        /\ wpc' = [wpc EXCEPT ![w] = "crashed"]
     /\ wnow' = wnow
     /\ wmembers' = [wmembers EXCEPT ![w] = <<>>]
     /\ widx' = [widx EXCEPT ![w] = 0]
     /\ wscore' = [wscore EXCEPT ![w] = None]
     /\ wtoken' = [wtoken EXCEPT ![w] = None]
     /\ wbranch' = wbranch
     /\ wseen' = wseen
     /\ UNCHANGED <<uvars, now, pvars, HistKept, oobs, crashes>>

\* (mutant) the match batch without its delete of the token
MatchBatchKeepsToken(w) ==
  /\ hash' = [hash EXCEPT ![CurKey(w)] = Some(0)]
  /\ zset' = ZRem(zset, CurMember(w))
  /\ token' = token
  /\ Finish(w, "match")
  /\ Forget(CurMember(w))
  /\ UNCHANGED <<uvars, now, pvars, HistKept, oobs, crashes>>

\* score and token agree: pipeline(hset 0, zrem, delete token).execute()
MatchBatch(w) ==
  /\ hash' = [hash EXCEPT ![CurKey(w)] = Some(0)]
  /\ zset' = ZRem(zset, CurMember(w))
  /\ token' = [token EXCEPT ![CurTokenKey(w)] = None]
  /\ Finish(w, "match")
  /\ Forget(CurMember(w))
  /\ UNCHANGED <<uvars, now, pvars, HistKept, oobs, crashes>>

\* (mutant) the else branch also clears the flag
MismatchClearsFlag(w) ==
  /\ zset' = ZRem(zset, CurMember(w))
  /\ hash' = [hash EXCEPT ![CurKey(w)] = Some(0)]
  /\ token' = token
  /\ Finish(w, "mismatch")
  /\ Forget(CurMember(w))
  /\ UNCHANGED <<uvars, now, pvars, HistKept, oobs, crashes>>

\* else: redis_db.zrem(due_zset, member)
MismatchZrem(w) ==
  /\ zset' = ZRem(zset, CurMember(w))
  /\ hash' = hash
  /\ token' = token
  /\ Finish(w, "mismatch")
  /\ Forget(CurMember(w))
  /\ UNCHANGED <<uvars, now, pvars, HistKept, oobs, crashes>>

\* (mutant) a token float() cannot parse takes the no-token branch
ResolveGarbageAsAbsent(w) ==
  /\ wpc[w] = "resolve"
  /\ IF IsNone(wtoken[w]) \/ IsNone(Float(Val(wtoken[w]))) THEN NoTokenBatch(w)
     ELSE IF Matches(Val(wtoken[w]), Val(wscore[w])) THEN MatchBatch(w)
     ELSE MismatchZrem(w)

\* (mutant) without the `if token is None` branch: a missing token falls
\* through to the else branch
ResolveAbsentAsMismatch(w) ==
  /\ wpc[w] = "resolve"
  /\ IF IsNone(wtoken[w]) THEN MismatchZrem(w)
     ELSE IF Matches(Val(wtoken[w]), Val(wscore[w])) THEN MatchBatch(w)
     ELSE MismatchZrem(w)

\* the store call that ends the for body, chosen by the token just read
Resolve(w) ==
  /\ wpc[w] = "resolve"
  /\ IF IsNone(wtoken[w]) THEN NoTokenBatch(w)
     ELSE IF Matches(Val(wtoken[w]), Val(wscore[w])) THEN MatchBatch(w)
     ELSE MismatchZrem(w)

\* --------------------------------------------------------- specifications
ProducerStep(p) ==
  \/ \E k \in FlagKeys, d \in Durations : PulseStart(p, k, d)
  \/ PulseCommit(p)
  \/ PulseFail(p)
  \/ FlagRead(p)

WorkerStep(w) ==
  \/ ReadClock(w)
  \/ Query(w)
  \/ Wake(w)
  \/ Iterate(w)
  \/ ReadToken(w)
  \/ Resolve(w)
  \/ Continue(w)

\* concurrent producers and one reset worker: nothing else writes the store
Next ==
  \/ Tick
  \/ \E p \in Producers : ProducerStep(p)
  \/ WorkerStep("w1")

Spec == Init /\ [][Next]_vars

\* one producer and one reset worker
Next11 ==
  \/ Tick
  \/ ProducerStep("p1")
  \/ WorkerStep("w1")

Spec11 == Init /\ [][Next11]_vars

\* several reset workers deployed side by side, no mutual exclusion
Next2W ==
  \/ Tick
  \/ ProducerStep("p1")
  \/ \E w \in Workers : WorkerStep(w)

Spec2W == Init /\ [][Next2W]_vars

HasEntry(k) == \E e \in zset : e[1] = MemberOf(k)
HasToken(k) == ~IsNone(token[TokenKeyOf(k)])

\* both workers keep running and the clock keeps advancing
Live2W ==
  /\ Spec2W
  /\ WF_vars(Tick) /\ WF_vars(WorkerStep("w1")) /\ WF_vars(WorkerStep("w2"))

\* ------------------------------------------------- out-of-band store writes
\* DEL of a member's token by something other than the worker
OobDelToken(k) ==
  /\ oobs < MaxOob
  /\ HasToken(k)
  /\ token' = [token EXCEPT ![TokenKeyOf(k)] = None]
  /\ oobs' = oobs + 1
  /\ UNCHANGED <<uvars, now, hash, zset, pvars, wvars, hist, crashes>>

\* SET of a member's existing token to a string float() cannot parse
OobGarbleToken(k) ==
  /\ oobs < MaxOob
  /\ HasToken(k)
  /\ token[TokenKeyOf(k)] # Some(Garbage)
  /\ token' = [token EXCEPT ![TokenKeyOf(k)] = Some(Garbage)]
  /\ oobs' = oobs + 1
  /\ UNCHANGED <<uvars, now, hash, zset, pvars, wvars, hist, crashes>>

\* ZADD of a member string without separator, due at once
OobAddBadMember(x) ==
  /\ oobs < MaxOob
  /\ zset' = ZAdd(zset, x, 0)
  /\ oobs' = oobs + 1
  /\ Forget(x)
  /\ UNCHANGED <<uvars, now, hash, token, pvars, wvars, lastDue, lastDur, commits,
                 wpulsed, wslept, crashes>>

NextOob ==
  \/ Tick
  \/ ProducerStep("p1")
  \/ WorkerStep("w1")
  \/ \E k \in FlagKeys : OobDelToken(k)
  \/ \E k \in FlagKeys : OobGarbleToken(k)
  \/ \E x \in Malformed : OobAddBadMember(x)

SpecOob == Init /\ [][NextOob]_vars

\* more members in the index than one range query returns: one producer, one
\* reset worker that keeps running, and malformed members added besides
NextBacklog ==
  \/ Tick
  \/ ProducerStep("p1")
  \/ WorkerStep("w1")
  \/ \E x \in Malformed : OobAddBadMember(x)

SpecBacklog ==
  /\ InitRecorded /\ [][NextBacklog]_vars
  /\ WF_vars(Tick) /\ WF_vars(WorkerStep("w1"))

\* ------------------------------------------------ termination and restart
\* the process exits, or a store call raises out of reset_loop: every local
\* of the loop is lost, the store keeps what was committed
Crash(w) ==
  /\ wpc[w] # "crashed"
  /\ crashes < MaxCrashes
  /\ crashes' = crashes + 1
  /\ wpc' = [wpc EXCEPT ![w] = "crashed"]
  /\ wnow' = [wnow EXCEPT ![w] = 0]
  /\ wmembers' = [wmembers EXCEPT ![w] = <<>>]
  /\ widx' = [widx EXCEPT ![w] = 0]
  /\ wscore' = [wscore EXCEPT ![w] = None]
  /\ wtoken' = [wtoken EXCEPT ![w] = None]
  /\ wbranch' = [wbranch EXCEPT ![w] = "none"]
  /\ wpulsed' = [wpulsed EXCEPT ![w] = FALSE]
  /\ wslept' = [wslept EXCEPT ![w] = TRUE]
  /\ UNCHANGED <<uvars, now, store, pvars, lastDue, lastDur, commits, wseen, oobs>>

\* the supervisor starts the process again: reset_loop from its first line
Restart(w) ==
  /\ wpc[w] = "crashed"
  /\ wpc' = [wpc EXCEPT ![w] = "loop"]
  /\ UNCHANGED <<uvars, now, store, pvars, hist, oobs, crashes,
                 wnow, wmembers, widx, wscore, wtoken, wbranch>>

NextCrash ==
  \/ Tick
  \/ ProducerStep("p1")
  \/ WorkerStep("w1")
  \/ Crash("w1")
  \/ Restart("w1")

\* the clock advances, a running worker keeps stepping, a terminated worker
\* is started again
SpecCrash ==
  /\ Init /\ [][NextCrash]_vars
  /\ WF_vars(Tick) /\ WF_vars(WorkerStep("w1")) /\ WF_vars(Restart("w1"))

\* the worker loop keeps running and the clock keeps advancing
LiveSpec == Spec /\ WF_vars(Tick) /\ WF_vars(WorkerStep("w1"))

\* ------------------------------------------------------------ the uploader
\* the alarm model's processes take no step while the uploader runs
UpFrame == UNCHANGED <<pvars, wvars, oobs, crashes, wpulsed, wslept, wseen>>
NoPulse == UNCHANGED <<store, lastDue, lastDur, commits>>
ThreadLocals == <<upc, ucursor, ubackoff, ucand, ucandkey>>

UpTick ==
  /\ now < MaxUpTime
  /\ now' = now + 1
  /\ UNCHANGED uvars /\ NoPulse /\ UpFrame

\* the local directory, written by the programs that produce the files: a
\* file's mtime is the clock at its last write
FileCreate(n) ==
  /\ fileops < MaxFileOps
  /\ IsNone(ufiles[n])
  /\ ufiles' = [ufiles EXCEPT ![n] = Some(now)]
  /\ fileops' = fileops + 1
  /\ UNCHANGED <<ThreadLocals, usaved, failures, udone, ufailed, now>> /\ NoPulse /\ UpFrame
FileWrite(n) ==
  /\ fileops < MaxFileOps
  /\ ~IsNone(ufiles[n]) /\ Val(ufiles[n]) < now
  /\ ufiles' = [ufiles EXCEPT ![n] = Some(now)]
  /\ fileops' = fileops + 1
  /\ UNCHANGED <<ThreadLocals, usaved, failures, udone, ufailed, now>> /\ NoPulse /\ UpFrame
FileDelete(n) ==
  /\ fileops < MaxFileOps
  /\ ~IsNone(ufiles[n])
  /\ ufiles' = [ufiles EXCEPT ![n] = None]
  /\ fileops' = fileops + 1
  /\ UNCHANGED <<ThreadLocals, usaved, failures, udone, ufailed, now>> /\ NoPulse /\ UpFrame

\* (mutant) the for body without its `k < best_key` test
ConsiderNoCompare(best, files, n, cursor, t) ==
  IF IsNone(files[n]) THEN best
  ELSE LET k == <<Val(files[n]), n>> IN
    IF KeyLeq(k, cursor) THEN best
    ELSE IF t - k[1] < settle_sec THEN best
    ELSE Some(k)
\* one pass of the for body over directory entry n: best_key after it
Consider(best, files, n, cursor, t) ==
  IF IsNone(files[n]) THEN best
  ELSE LET k == <<Val(files[n]), n>> IN
    IF KeyLeq(k, cursor) THEN best
    ELSE IF t - k[1] < settle_sec THEN best
    ELSE IF IsNone(best) \/ KeyLess(k, Val(best)) THEN Some(k)
    ELSE best
RECURSIVE Scan(_, _, _, _, _, _)
Scan(order, i, best, files, cursor, t) ==
  IF i > Len(order) THEN best
  ELSE Scan(order, i + 1, Consider(best, files, order[i], cursor, t), files, cursor, t)
\* next_stable_file_after_cursor: best_key after the loop over it = iterdir(),
\* which yields the entries in the arbitrary order `order`
next_stable_file_after_cursor(order, files, cursor, t) ==
  Scan(order, 1, None, files, cursor, t)
ScanOrders ==
  {o \in [1..Len(FileNames) -> NameSet] : \A i, j \in 1..Len(FileNames) : i # j => o[i] # o[j]}

\* alarm_pulse(redis_db, health_hash, key) with the default duration_sec
UpPulse(k) ==
  /\ PulseBatch(k, now + DefaultDuration)
  /\ lastDue' = [lastDue EXCEPT ![k] = Some(now + DefaultDuration)]
  /\ lastDur' = [lastDur EXCEPT ![k] = DefaultDuration]
  /\ commits' = [commits EXCEPT ![k] = IF @ = 0 THEN 1 ELSE 2]

\* main() starts the job thread: state_path, cursor = load_cursor(state_path),
\* backoff = 2.0
UpStart ==
  /\ upc = "off"
  /\ ucursor' = load_cursor(usaved)
  /\ ubackoff' = BackoffStart
  /\ udone' = {}
  /\ upc' = "connect"
  /\ UNCHANGED <<usaved, ucand, ucandkey, ufiles, fileops, failures, ufailed, now>>
  /\ NoPulse /\ UpFrame

\* ssh.connect(...) returns; backoff = 2.0
UpConnectOk ==
  /\ upc = "connect"
  /\ ubackoff' = BackoffStart
  /\ upc' = "open"
  /\ UNCHANGED <<ucursor, usaved, ucand, ucandkey, ufiles, fileops, failures, udone, ufailed, now>>
  /\ NoPulse /\ UpFrame

\* ssh.connect(...) raises: into the except branch
UpConnectFails ==
  /\ upc = "connect"
  /\ failures < MaxFailures
  /\ failures' = failures + 1
  /\ upc' = "confail"
  /\ UNCHANGED <<ucursor, usaved, ubackoff, ucand, ucandkey, ufiles, fileops,
                 udone, ufailed, now>>
  /\ NoPulse /\ UpFrame

\* alarm_pulse(connect key); time.sleep(backoff);
\* backoff = min(backoff * 2.0, backoff_max); continue
UpConnectPulse ==
  /\ upc = "confail"
  /\ UpPulse(HealthConnectKey)
  /\ ubackoff' = IF ubackoff * 2 < backoff_max THEN ubackoff * 2 ELSE backoff_max
  /\ upc' = "connect"
  /\ UNCHANGED <<ucursor, usaved, ucand, ucandkey, ufiles, fileops, failures, udone, ufailed, now>>
  /\ UpFrame

\* the exception leaves upload_newest_file: the thread ends, its locals are lost
ThreadDies ==
  /\ upc' = "dead"
  /\ ucursor' = FreshCursor
  /\ ubackoff' = BackoffStart
  /\ ucand' = None
  /\ ucandkey' = None

\* alarm_pulse raises inside an except branch (store unavailable): nothing
\* catches it
UpPulseRaises ==
  /\ upc \in {"confail", "upfail"}
  /\ failures < MaxFailures
  /\ failures' = failures + 1
  /\ ThreadDies
  /\ UNCHANGED <<usaved, ufiles, fileops, udone, ufailed, now>>
  /\ NoPulse /\ UpFrame

\* set_keepalive(30); sftp = ssh.open_sftp(); uploaded_any = False
UpOpenOk ==
  /\ upc = "open"
  /\ upc' = "scan"
  /\ UNCHANGED <<ucursor, usaved, ubackoff, ucand, ucandkey, ufiles, fileops, failures,
                 udone, ufailed, now>>
  /\ NoPulse /\ UpFrame

\* open_sftp() raises, outside every try
UpOpenFails ==
  /\ upc = "open"
  /\ failures < MaxFailures
  /\ failures' = failures + 1
  /\ ThreadDies
  /\ UNCHANGED <<usaved, ufiles, fileops, udone, ufailed, now>>
  /\ NoPulse /\ UpFrame

\* candidate = next_stable_file_after_cursor(...); None: break, sleep, close
\* the connection in finally, sleep, and connect again
UpScan ==
  /\ upc = "scan"
  /\ \E order \in ScanOrders :
       LET best == next_stable_file_after_cursor(order, ufiles, ucursor, now) IN
         IF IsNone(best)
         THEN /\ upc' = "connect"
              /\ ucand' = None
              /\ ucandkey' = None
         ELSE /\ upc' = "upload"
              /\ ucand' = Some(Val(best)[2])
              /\ ucandkey' = best
  /\ UNCHANGED <<ucursor, usaved, ubackoff, ufiles, fileops, failures, udone, ufailed, now>>
  /\ NoPulse /\ UpFrame

\* sftp_upload(sftp, candidate, remote_dir) raises
UpUploadFails ==
  /\ upc = "upload"
  /\ failures < MaxFailures
  /\ failures' = failures + 1
  /\ upc' = "upfail"
  /\ ufailed' = ufailed \cup {Val(ucandkey)}
  /\ UNCHANGED <<ucursor, usaved, ubackoff, ucand, ucandkey, ufiles, fileops, udone, now>>
  /\ NoPulse /\ UpFrame

\* sftp_upload returns; st = candidate.stat();
\* cursor = Cursor(st.st_mtime, candidate.name); save_cursor(state_path, cursor)
UpProcessed ==
  /\ upc = "upload"
  /\ ~IsNone(ufiles[Val(ucand)])
  /\ udone' = udone \cup {Val(ucandkey)}
  /\ ucursor' = <<Val(ufiles[Val(ucand)]), Val(ucand)>>
  /\ usaved' = Some(ucursor')
  /\ upc' = "scan"
  /\ UNCHANGED <<ubackoff, ucand, ucandkey, ufiles, fileops, failures, ufailed, now>>
  /\ NoPulse /\ UpFrame

\* sftp_upload returns and candidate.stat() raises FileNotFoundError: the
\* file was removed meanwhile
UpStatFails ==
  /\ upc = "upload"
  /\ IsNone(ufiles[Val(ucand)])
  /\ udone' = udone \cup {Val(ucandkey)}
  /\ upc' = "upfail"
  /\ UNCHANGED <<ucursor, usaved, ubackoff, ucand, ucandkey, ufiles, fileops, failures, ufailed, now>>
  /\ NoPulse /\ UpFrame

\* sftp_upload returns, cursor is assigned and save_cursor raises
UpSaveFails ==
  /\ upc = "upload"
  /\ failures < MaxFailures
  /\ failures' = failures + 1
  /\ ~IsNone(ufiles[Val(ucand)])
  /\ udone' = udone \cup {Val(ucandkey)}
  /\ ucursor' = <<Val(ufiles[Val(ucand)]), Val(ucand)>>
  /\ upc' = "upfail"
  /\ UNCHANGED <<usaved, ubackoff, ucand, ucandkey, ufiles, fileops, ufailed, now>>
  /\ NoPulse /\ UpFrame

\* except Exception: alarm_pulse(upload key); raise -- finally closes sftp
\* and ssh, and nothing catches the exception
UpUploadPulse ==
  /\ upc = "upfail"
  /\ UpPulse(HealthUploadKey)
  /\ ThreadDies
  /\ UNCHANGED <<usaved, ufiles, fileops, failures, udone, ufailed, now>>
  /\ UpFrame

\* main(): `if not t.is_alive(): raise RuntimeError(...)`: the process exits
MainDetects ==
  /\ upc = "dead"
  /\ upc' = "off"
  /\ UNCHANGED <<ucursor, usaved, ubackoff, ucand, ucandkey, ufiles, fileops, failures,
                 udone, ufailed, now>>
  /\ NoPulse /\ UpFrame

UploaderStep ==
  \/ UpStart
  \/ UpConnectOk
  \/ UpConnectFails
  \/ UpConnectPulse
  \/ UpPulseRaises
  \/ UpOpenOk
  \/ UpOpenFails
  \/ UpScan
  \/ UpUploadFails
  \/ UpProcessed
  \/ UpStatFails
  \/ UpSaveFails
  \/ UpUploadPulse
  \/ MainDetects

NextUp ==
  \/ UpTick
  \/ \E n \in NameSet : FileCreate(n)
  \/ \E n \in NameSet : FileWrite(n)
  \/ \E n \in NameSet : FileDelete(n)
  \/ UploaderStep

SpecUp == Init /\ [][NextUp]_vars

\* ------------------------------------------------------------ member states
Resolved(k) == FlagValue(k) = 0 /\ ~HasEntry(k) /\ ~HasToken(k)
\* no pulse on the member is between its clock read and its commit
Quiet(k) == \A p \in Producers : ~(ppc[p] = "commit" /\ pkey[p] = Some(k))
\* producer p takes its flag read in this step
Reads(p) == ppc[p] = "returned" /\ ppc'[p] = "idle"
\* producer p's batch commits in this step
Commits(p) == ppc[p] = "commit" /\ ppc'[p] = "returned"

\* ------------------------------------------------------------------ claims

\* C1: the flag read that follows a successful alarm_pulse, taken before the
\* pulse's due time, returns 1 in every interleaving with the reset worker.
C1_ReadAfterPulseIsOne ==
  [][\A p \in Producers :
       (Reads(p) /\ now < pdue[p]) => FlagValue(Val(pkey[p])) = 1]_vars

\* C2: once pulses on a member stop and the worker keeps running, the member
\* eventually reaches and stays in flag = 0, no due-index entry, no token.
C2_EventuallyResolved ==
  \A k \in FlagKeys : (<>[]Quiet(k)) => <>[]Resolved(k)

\* C3: a member pulsed exactly once keeps flag = 1 and its due-index entry
\* in every state from the pulse's commit until the clock reaches the due
\* time; a sweep only ever selects members whose score is <= its now.
Entries(m) == {e \in zset : e[1] = m}
C3_ArmedUntilDue ==
  /\ \A k \in FlagKeys :
       (commits[k] = 1 /\ now < Val(lastDue[k])) =>
         /\ FlagValue(k) = 1
         /\ Entries(MemberOf(k)) = {<<MemberOf(k), Val(lastDue[k])>>}
  /\ \A k \in FlagKeys :
       (commits[k] = 1 /\ wpc["w1"] \in {"iter", "token", "resolve", "done"}
          /\ \E i \in 1..Len(wmembers["w1"]) : wmembers["w1"][i] = MemberOf(k))
       => Val(lastDue[k]) <= now
\* the worker has swept (and found nothing due) while the member is armed
C3_Witness ==
  \E k \in FlagKeys :
    /\ commits[k] = 1 /\ now > 0 /\ now < Val(lastDue[k])
    /\ wpc["w1"] = "sleep"
    /\ FlagValue(k) = 1

\* C4: the due index holds at most one entry per member, and an entry's
\* score is the due time of the pulse that committed last on that member,
\* with several callers pulsing concurrently.
C4_OneEntryLatestDue ==
  /\ \A m \in MemberStrings : Cardinality(Entries(m)) <= 1
  /\ \A k \in FlagKeys :
       HasEntry(k) => Entries(MemberOf(k)) = {<<MemberOf(k), Val(lastDue[k])>>}
\* two callers pulsed one member concurrently with different due times; the
\* one overtaken between its clock read and its commit committed last
C4_Witness ==
  \E k \in FlagKeys, p, q \in Producers :
    /\ commits[k] = 2 /\ HasEntry(k)
    /\ ppc[p] = "returned" /\ pkey[p] = Some(k) /\ pdue[p] = Val(lastDue[k])
    /\ ppc[q] = "returned" /\ pkey[q] = Some(k) /\ pdue[q] # pdue[p]
    /\ povertaken[p]

\* C5 (as stated): every pulse commit leaves the member's due-index score
\* and token greater than or equal to their values just before the commit.
ScoreOf(z, k) == (CHOOSE e \in z : e[1] = MemberOf(k))[2]
C5_OnlyForward ==
  [][\A p \in Producers : Commits(p) =>
       LET k == Val(pkey[p]) IN
         /\ HasEntry(k) => ScoreOf(zset', k) >= ScoreOf(zset, k)
         /\ HasToken(k) =>
              Val(token'[TokenKeyOf(k)]).val >= Val(token[TokenKeyOf(k)]).val]_vars

\* C5 (amended): a pulse commit sets the member's score and token to that
\* pulse's own due time (clock at the call + duration_sec); they do not
\* decrease when no other pulse on the member committed since the call read
\* the clock and duration_sec is not below the last committed pulse's.
C5_SetsOwnDue ==
  [][\A p \in Producers : Commits(p) =>
       LET k == Val(pkey[p]) IN
         /\ Entries(MemberOf(k))' = {<<MemberOf(k), pdue[p]>>}
         /\ token'[TokenKeyOf(k)] = Some(Str(pdue[p]))
         /\ (~povertaken[p] /\ pdur[p] >= lastDur[k]) =>
              /\ HasEntry(k) => pdue[p] >= ScoreOf(zset, k)
              /\ HasToken(k) => pdue[p] >= Val(token[TokenKeyOf(k)]).val]_vars
\* a second pulse on a member, called after the clock advanced, has just
\* committed and the entry carries its due time
C5_Witness ==
  \E p \in Producers :
    /\ ppc[p] = "returned"
    /\ commits[Val(pkey[p])] = 2
    /\ ~povertaken[p]
    /\ Entries(MemberOf(Val(pkey[p]))) = {<<MemberOf(Val(pkey[p])), pdue[p]>>}
    /\ pdue[p] > pdur[p]

\* C6: whenever a due-index entry exists for a member, a token exists for
\* it with the same value, in every interleaving of pulses with the steps of
\* several reset workers.
C6_EntryHasSameToken ==
  \A k \in FlagKeys : \A e \in Entries(MemberOf(k)) :
    token[TokenKeyOf(k)] = Some(Str(e[2]))
\* a member re-armed after one worker resolved it, while the other worker is
\* still inside its iteration for that member
C6_Witness ==
  \E k \in FlagKeys :
    /\ commits[k] = 2 /\ HasEntry(k)
    /\ wpc["w1"] = "done" /\ wbranch["w1"] = "match" /\ CurMember("w1") = MemberOf(k)
    /\ wpc["w2"] = "resolve" /\ CurMember("w2") = MemberOf(k)

\* worker w makes the store call that ends its iteration for a member
Resolves(w) == wpc[w] = "resolve" /\ wpc'[w] # "resolve"
\* the token the worker read is present and float() cannot parse it
ReadGarbage(w) == ~IsNone(wtoken[w]) /\ IsNone(Float(Val(wtoken[w])))
\* worker w issues its range query
Queries(w) == wpc[w] = "query" /\ wpc'[w] # "query"
InBatch(ms, m) == \E i \in 1..Len(ms) : ms[i] = m

\* C7 (as stated): a due member whose token is not numeric is treated like
\* one without token: the flag is cleared to 0 and the due-index entry is
\* removed, and no error is raised.
C7_GarbageLikeAbsent ==
  [][\A w \in Workers : (Resolves(w) /\ ReadGarbage(w)) =>
       /\ wpc'[w] = "done"
       /\ hash'[CurKey(w)] = Some(0)
       /\ Entries(CurMember(w))' = {}]_vars

\* C7 (amended): a due member whose token is not numeric is treated like a
\* mismatching token: only the due-index entry is removed, the flag and the
\* token stay as they are, and no error is raised.
C7_GarbageLikeMismatch ==
  [][\A w \in Workers : (Resolves(w) /\ ReadGarbage(w)) =>
       /\ wpc'[w] = "done" /\ wbranch'[w] = "mismatch"
       /\ Entries(CurMember(w))' = {}
       /\ hash' = hash
       /\ token' = token]_vars
\* the worker has just resolved a member with a garbled token: the flag is
\* still 1, the entry is gone, the token is still there
C7_Witness ==
  \E w \in Workers :
    /\ wpc[w] = "done" /\ wbranch[w] = "mismatch"
    /\ wtoken[w] = Some(Garbage)
    /\ token[CurTokenKey(w)] = Some(Garbage)
    /\ FlagValue(CurKey(w)) = 1
    /\ Entries(CurMember(w)) = {}

\* the part of the claim about the worker's batch: a token read as absent
\* makes the worker set the flag to 0 and remove the entry in one step,
\* writing no token
NoTokenStep(w) ==
  (Resolves(w) /\ IsNone(wtoken[w])) =>
    /\ wpc'[w] = "done"
    /\ hash' = [hash EXCEPT ![CurKey(w)] = Some(0)]
    /\ Entries(CurMember(w))' = {}
    /\ token' = token
\* a due entry whose token is absent
DueNoToken(w, k) ==
  /\ ~HasToken(k)
  /\ \E e \in Entries(MemberOf(k)) : e[2] <= wnow[w]

\* C8 (as stated): an entry whose token is absent is resolved by the first
\* sweep that runs after its due time: that sweep's range query returns the
\* member, and the worker sets its flag to 0 and removes its entry in one
\* atomic batch without writing a token.
C8_FirstSweepClears ==
  [][\A w \in Workers :
       /\ \A k \in FlagKeys :
            (Queries(w) /\ DueNoToken(w, k)) => InBatch(wmembers'[w], MemberOf(k))
       /\ NoTokenStep(w)]_vars

\* C8 (amended): the same, for the first sweep after the due time whose
\* range query returns the member; every sweep does when at most `batch`
\* entries are due, a sweep with more due entries takes the `batch` smallest
\* scores and may leave the member to a later sweep.
C8_SweepClearsNoToken ==
  [][\A w \in Workers :
       /\ \A k \in FlagKeys :
            (Queries(w) /\ DueNoToken(w, k) /\ Cardinality(Due(wnow[w])) <= batch)
              => InBatch(wmembers'[w], MemberOf(k))
       /\ NoTokenStep(w)]_vars
\* the worker has just cleared a member whose token was deleted out-of-band
C8_Witness ==
  \E w \in Workers :
    /\ wpc[w] = "done" /\ wbranch[w] = "notoken"
    /\ oobs > 0 /\ commits[CurKey(w)] = 1
    /\ hash[CurKey(w)] = Some(0)
    /\ Entries(CurMember(w)) = {}
    /\ IsNone(token[CurTokenKey(w)])

\* C9: a member string without separator is removed from the due index, no
\* flag and no token changes, the worker does not terminate, and it goes on
\* with the remaining candidates of the same batch.
C9_MalformedDropped ==
  [][\A w \in Workers :
       /\ (wpc[w] = "iter" /\ wpc'[w] # "iter" /\ ~Unpacks(CurMember(w))) =>
            /\ wpc'[w] = "done" /\ wbranch'[w] = "bad"
            /\ zset' = {e \in zset : e[1] # CurMember(w)}
            /\ hash' = hash /\ token' = token
            /\ wmembers'[w] = wmembers[w] /\ widx'[w] = widx[w]
       /\ (wpc[w] = "done" /\ wbranch[w] = "bad" /\ wpc'[w] # "done"
             /\ widx[w] < Len(wmembers[w])) =>
            /\ wpc'[w] = "iter"
            /\ wmembers'[w] = wmembers[w] /\ widx'[w] = widx[w] + 1]_vars
\* the worker has dropped a malformed member that came first in a batch of
\* two and is now working on the candidate after it
C9_Witness ==
  \E w \in Workers :
    /\ wpc[w] = "token" /\ widx[w] = 2
    /\ wmembers[w][1] \in Malformed
    /\ Entries(wmembers[w][1]) = {}

\* C10: terminating the worker at any point leaves no member with a partly
\* applied resolution (an entry never stands beside a cleared flag or a
\* missing or different token), and when no pulse follows the termination
\* every member that still has an entry ends with flag = 0, no entry, no
\* token once the worker runs again.
NoPartial ==
  \A k \in FlagKeys : \A e \in Entries(MemberOf(k)) :
    /\ hash[k] = Some(1)
    /\ token[TokenKeyOf(k)] = Some(Str(e[2]))
C10_RestartResumes ==
  /\ []NoPartial
  /\ \A k \in FlagKeys :
       []((wpc["w1"] = "crashed" /\ HasEntry(k) /\ []Quiet(k)) => <>[]Resolved(k))
\* the worker was terminated with its clearing batch pending, was started
\* again and has resolved the member
C10_Witness ==
  \E k \in FlagKeys :
    /\ crashes > 0 /\ wpc["w1"] = "done" /\ wbranch["w1"] = "match"
    /\ CurKey("w1") = k /\ commits[k] > 0 /\ Resolved(k)

\* the score the worker re-read and the token it read agree
ReadMatch(w) == ~IsNone(wtoken[w]) /\ Matches(Val(wtoken[w]), Val(wscore[w]))

\* C13: when the re-read score and the token agree, one step of the worker
\* sets the flag to 0, removes the due-index entry and deletes the token,
\* and changes nothing else in the store, so no state lies between with only
\* some of the three changed; the member is then RESOLVED and stays so in
\* every step that is not the commit of a pulse on it.
C13_MatchResolvesAtomically ==
  [][/\ \A w \in Workers : (Resolves(w) /\ ReadMatch(w)) =>
          LET k == CurKey(w) IN
          /\ wbranch'[w] = "match"
          /\ hash' = [hash EXCEPT ![k] = Some(0)]
          /\ zset' = {e \in zset : e[1] # MemberOf(k)}
          /\ token' = [token EXCEPT ![TokenKeyOf(k)] = None]
          /\ Resolved(k)'
     /\ \A k \in FlagKeys : (Resolved(k) /\ ~Resolved(k)') =>
          \E p \in Producers : Commits(p) /\ pkey[p] = Some(k)]_vars
\* the worker has resolved a member on the match path while a pulse on the
\* same member is about to commit
C13_Witness ==
  \E k \in FlagKeys : \E p \in Producers :
    /\ wpc["w1"] = "done" /\ wbranch["w1"] = "match" /\ CurKey("w1") = k
    /\ ppc[p] = "commit" /\ pkey[p] = Some(k)
    /\ Resolved(k)

\* the worker read a numeric token that differs from the re-read score
ReadDiffer(w) ==
  /\ ~IsNone(wtoken[w]) /\ ~IsNone(Float(Val(wtoken[w])))
  /\ Abs(Val(Float(Val(wtoken[w]))) - Val(wscore[w])) >= Tol

\* C14: when the re-read score and the token differ, the worker's step
\* removes the member's due-index entry and nothing else: every flag and
\* every token has the same value after the step as before it.
C14_MismatchRemovesEntryOnly ==
  [][\A w \in Workers : (Resolves(w) /\ ReadDiffer(w)) =>
       /\ wpc'[w] = "done" /\ wbranch'[w] = "mismatch"
       /\ zset' = {e \in zset : e[1] # CurMember(w)}
       /\ hash' = hash
       /\ token' = token]_vars
\* the worker has just dropped the entry of a re-armed member: the flag is
\* still 1 and the token still holds the last pulse's due time
C14_Witness ==
  \E w \in Workers :
    /\ wpc[w] = "done" /\ wbranch[w] = "mismatch"
    /\ wtoken[w] = Some(Str(Val(lastDue[CurKey(w)])))
    /\ Val(wscore[w]) < Val(lastDue[CurKey(w)])
    /\ hash[CurKey(w)] = Some(1)
    /\ token[CurTokenKey(w)] = wtoken[w]
    /\ Entries(CurMember(w)) = {}

\* C15: with only pulses and reset workers writing the store, a worker takes
\* the mismatch branch for a member only if a pulse on that member committed
\* after the worker's score re-read (a) and before its token read (b).
C15_MismatchNeedsPulseBetween ==
  [][\A w \in Workers :
       (Resolves(w) /\ wbranch'[w] = "mismatch") => wpulsed[w]]_vars
\* a worker is about to take the mismatch branch: a second pulse on the
\* member committed between its two reads
C15_Witness ==
  \E w \in Workers :
    /\ wpc[w] = "resolve" /\ ReadDiffer(w) /\ wpulsed[w]
    /\ commits[CurKey(w)] = 2

\* worker w reads the token of its current member in this step
ReadsToken(w) == wpc[w] = "token" /\ wpc'[w] = "resolve"

\* C16 (as stated): when a pulse on the member commits between the worker's
\* score re-read (a) and its token read (b), the worker takes the match
\* path: flag cleared, entry removed, token deleted.
C16_PulseBetweenMatches ==
  [][\A w \in Workers : (Resolves(w) /\ wpulsed[w]) =>
       /\ wbranch'[w] = "match"
       /\ Resolved(CurKey(w))']_vars

\* C16 (amended): when a pulse on the member commits between (a) and (b),
\* the token the worker reads at (b) is the due time of the pulse that
\* committed last, while its score is the one from before; the worker takes
\* the match path only if the two are within the tolerance and otherwise the
\* mismatch path, which removes the entry and leaves the flag at 1 and the
\* token in place.
C16_PulseBetweenCompared ==
  [][\A w \in Workers :
       /\ (ReadsToken(w) /\ wpulsed[w]) =>
            wtoken'[w] = Some(Str(Val(lastDue[CurKey(w)])))
       /\ (Resolves(w) /\ wpulsed[w]) =>
            /\ ReadMatch(w) \/ ReadDiffer(w)
            /\ ReadMatch(w) => wbranch'[w] = "match" /\ Resolved(CurKey(w))'
            /\ ReadDiffer(w) =>
                 /\ wbranch'[w] = "mismatch"
                 /\ hash'[CurKey(w)] = Some(1)
                 /\ token'[CurTokenKey(w)] = token[CurTokenKey(w)]
                 /\ ~IsNone(token[CurTokenKey(w)])
                 /\ Entries(CurMember(w))' = {}]_vars
\* a pulse with a later due time committed between the two reads and the
\* worker has taken the mismatch path: flag 1, token of that pulse, no entry
C16_Witness ==
  \E w \in Workers :
    /\ wpc[w] = "done" /\ wbranch[w] = "mismatch" /\ wpulsed[w]
    /\ FlagValue(CurKey(w)) = 1
    /\ token[CurTokenKey(w)] = Some(Str(Val(lastDue[CurKey(w)])))
    /\ ~HasEntry(CurKey(w))

\* worker w's step sets the flag of its current member to 0 although the
\* pulse that committed last on it is not yet due
ClearsEarly(w) ==
  /\ Resolves(w)
  /\ hash'[CurKey(w)] = Some(0)
  /\ now < Val(lastDue[CurKey(w)])

\* C17: with one producer and one worker a re-armed flag can be cleared
\* before its due time. The state is reached (C17_Witness); whenever it
\* happens the worker is on the match path with a score and token that
\* agree, the member has been pulsed more than once, and the step leaves
\* flag 0, no entry and no token.
C17_EarlyClearIsMatchAfterRearm ==
  [][\A w \in Workers : ClearsEarly(w) =>
       /\ wbranch'[w] = "match"
       /\ ReadMatch(w)
       /\ commits[CurKey(w)] = 2
       /\ Resolved(CurKey(w))']_vars
\* the producer's second pulse has returned, its due time is still ahead,
\* and the worker has cleared the flag and removed entry and token
C17_Witness ==
  \E k \in FlagKeys :
    /\ wpc["w1"] = "done" /\ wbranch["w1"] = "match" /\ CurKey("w1") = k
    /\ ppc["p1"] = "returned" /\ pkey["p1"] = Some(k)
    /\ lastDue[k] = Some(pdue["p1"]) /\ now < pdue["p1"]
    /\ Resolved(k)

\* DROPPED-STALE: flag 1, no due-index entry, token present
Stale(k) == hash[k] = Some(1) /\ ~HasEntry(k) /\ HasToken(k)
\* a pulse on k commits in this step
PulseCommits(k) == \E p \in Producers : Commits(p) /\ pkey[p] = Some(k)
\* the flag, the token and the index entries of k are left as they are
Untouched(k) ==
  /\ hash'[k] = hash[k]
  /\ token'[TokenKeyOf(k)] = token[TokenKeyOf(k)]
  /\ Entries(MemberOf(k))' = Entries(MemberOf(k))
\* no worker is between its score re-read for k's member and the store call
\* that ends that iteration
NoPending(k) ==
  \A w \in Workers :
    ~(wpc[w] \in {"token", "resolve"} /\ CurMember(w) = MemberOf(k))

\* C18 (as stated): once a member is in DROPPED-STALE no reset-worker step
\* changes its flag, token or index entry: they change only in the commit
\* of a pulse on that member.
C18_StaleUntilPulse ==
  [][\A k \in FlagKeys : (Stale(k) /\ ~PulseCommits(k)) => Untouched(k)]_vars

\* C18 (amended): once a member is in DROPPED-STALE and no reset worker is
\* still between its score re-read and its final store call for that member
\* (always so with a single worker), no reset-worker step changes its flag,
\* token or index entry and no worker gets past the score re-read for it
\* again: the flag stays 1 until a pulse on the member commits, and that
\* commit makes it ARMED.
C18_StaleUntilPulseNoPending ==
  [][\A k \in FlagKeys :
       /\ (Stale(k) /\ NoPending(k) /\ ~PulseCommits(k)) =>
            Untouched(k) /\ NoPending(k)'
       /\ (Stale(k) /\ PulseCommits(k)) =>
            (hash'[k] = Some(1) /\ HasEntry(k)' /\ HasToken(k)')]_vars
\* a worker that had selected the member before it became DROPPED-STALE has
\* found its score gone and skipped it; the member is still DROPPED-STALE
C18_Witness ==
  \E k \in FlagKeys, w \in Workers :
    /\ Stale(k) /\ NoPending(k)
    /\ wpc[w] = "done" /\ wbranch[w] = "skip" /\ CurMember(w) = MemberOf(k)

\* worker w starts a sweep: the clock reading that its range query uses
StartsSweep(w) == wpc[w] = "loop" /\ wpc'[w] = "query"

\* C19 (as stated): the worker sleeps poll_interval between any two
\* consecutive range queries: every sweep but its first starts after a
\* sleep that followed the query before it.
C19_SleepsBetweenQueries ==
  [][\A w \in Workers : StartsSweep(w) => wslept[w]]_vars

\* C19 (amended): the worker sleeps poll_interval after a range query only
\* when that query returned no member; after the last candidate of a
\* non-empty batch it goes back to the top of the loop and starts the next
\* sweep without sleeping.
C19_SleepsOnlyWhenIdle ==
  [][\A w \in Workers :
       /\ Queries(w) =>
            /\ (wmembers'[w] = <<>>) <=> (wpc'[w] = "sleep")
            /\ (wmembers'[w] # <<>>) <=> (wpc'[w] = "iter")
       /\ (wpc[w] = "sleep" /\ wpc'[w] # "sleep") =>
            wpc'[w] = "loop" /\ wslept'[w]
       /\ (wpc[w] = "done" /\ wpc'[w] # "done" /\ widx[w] = Len(wmembers[w])) =>
            wpc'[w] = "loop" /\ ~wslept'[w]]_vars
\* the worker has worked through a batch and is back at the top of its loop,
\* about to start the next sweep without having slept
C19_Witness ==
  \E w \in Workers :
    /\ wpc[w] = "loop" /\ ~wslept[w]
    /\ \E k \in FlagKeys : commits[k] > 0 /\ Resolved(k)

\* C20: with pulses and worker steps only (no out-of-band write), a member
\* that has a due-index entry has flag = 1 in every reachable state, and a
\* step that sets a flag to 0 leaves the member without an index entry: the
\* clearing and the removal are one atomic batch.
C20_EntryImpliesFlag ==
  /\ [](\A k \in FlagKeys : HasEntry(k) => FlagValue(k) = 1)
  /\ [][\A k \in FlagKeys :
          (hash[k] # Some(0) /\ hash'[k] = Some(0)) =>
             /\ ~HasEntry(k)'
             /\ \E w \in Workers : wpc[w] = "resolve" /\ wpc'[w] = "done"
                                   /\ CurKey(w) = k]_vars
\* a worker has just cleared one member's flag and removed its entry in one
\* batch while another member is armed with an entry
C20_Witness ==
  \E w \in Workers : \E k, j \in FlagKeys :
    /\ j # k /\ wpc[w] = "done" /\ wbranch[w] = "match" /\ CurKey(w) = j
    /\ FlagValue(j) = 0 /\ ~HasEntry(j) /\ commits[j] > 0
    /\ HasEntry(k) /\ FlagValue(k) = 1

\* worker w finishes its iteration for the current member of its batch
FinishesIteration(w) == wpc[w] \in {"iter", "resolve"} /\ wpc'[w] = "done"

\* C21: when the worker finishes its iteration for a member its range query
\* returned, the member has no index entry: the worker removed it, or it was
\* already absent at the score re-read (the skip); a range query never
\* returns a member it returned before whose entry no one has written since;
\* and every member with a due entry, also when more than batch members are
\* due, is out of the index after finitely many sweeps, the worker having
\* finished an iteration for it.
C21_DrainsWithoutStarving ==
  /\ [][/\ \A w \in Workers :
            FinishesIteration(w) =>
              /\ Entries(CurMember(w))' = {}
              /\ IF wbranch'[w] = "skip"
                 THEN Entries(CurMember(w)) = {} /\ zset' = zset
                 ELSE zset' = ZRem(zset, CurMember(w))
        /\ \A w \in DOMAIN wseen :
            Queries(w) =>
              \A i \in 1..Len(wmembers'[w]) : wmembers'[w][i] \notin wseen[w]]_vars
  /\ \A m \in MemberStrings :
       (\E e \in Entries(m) : e[2] <= now) ~>
          (Entries(m) = {} /\ \E w \in Workers : wpc[w] = "done" /\ CurMember(w) = m)
\* three members are due, the worker holds a full batch of two of them, and
\* the third, left out by the range query, is still in the index
C21_Witness ==
  \E w \in DOMAIN wseen :
    /\ wpc[w] = "iter" /\ widx[w] = 1 /\ Len(wmembers[w]) = batch
    /\ \A i \in 1..batch : wmembers[w][i] \in wseen[w]
    /\ \E e \in zset : e[2] <= now /\ ~InBatch(wmembers[w], e[1])

\* no worker has gone past the score re-read of an iteration for k's member
\* that it has not left yet
NotInHand(k) ==
  \A w \in Workers :
    ~(wpc[w] \in {"token", "resolve", "done"} /\ CurMember(w) = MemberOf(k))
\* a worker has ended an iteration for k's member in the else branch
TookMismatch(k) ==
  \E w \in Workers :
    wpc[w] = "done" /\ wbranch[w] = "mismatch" /\ CurMember(w) = MemberOf(k)

\* C22: with two workers sweeping side by side, a member that has an index
\* entry, that no worker has in hand yet, and on which no pulse commits from
\* then on, never sees a worker take the mismatch branch for it, is never
\* in DROPPED-STALE, and ends in RESOLVED for good, whatever the
\* interleaving of the two workers' reads and writes.
C22_TwoWorkersResolve ==
  \A k \in FlagKeys :
    []((HasEntry(k) /\ NotInHand(k) /\ []Quiet(k)) =>
         /\ [](~TookMismatch(k) /\ ~Stale(k))
         /\ <>[]Resolved(k))
\* the two workers have both ended an iteration for the same member, pulsed
\* once: one with the match batch, the other, which re-read the score before
\* that batch and the token after it, with the no-token batch
C22_Witness ==
  \E k \in FlagKeys :
    /\ wpc["w1"] = "done" /\ wbranch["w1"] = "match" /\ CurKey("w1") = k
    /\ wpc["w2"] = "done" /\ wbranch["w2"] = "notoken" /\ CurKey("w2") = k
    /\ commits[k] = 1 /\ Resolved(k)

\* ---------------------------------------------------- claims on the uploader
\* the failure branch at position pos runs in this step and its alarm_pulse
\* call does not raise
Handles(pos) == upc = pos /\ upc' # pos /\ failures' = failures
\* the step commits a pulse on flag key k
PulseOn(k) ==
  /\ hash'[k] = Some(1)
  /\ token'[TokenKeyOf(k)] = Some(Str(now + DefaultDuration))
  /\ Entries(MemberOf(k))' = {<<MemberOf(k), now + DefaultDuration>>}

\* C11: after a failed SSH connect and after a failed upload of a candidate
\* the job pulses the matching health alarm and goes on with a new
\* connection attempt; the job thread does not terminate.
C11_FailureReconnects ==
  [][/\ Handles("confail") => PulseOn(HealthConnectKey) /\ upc' = "connect"
     /\ Handles("upfail") => PulseOn(HealthUploadKey) /\ upc' = "connect"]_vars

\* file key k is in the directory
Present(files, k) == files[k[2]] = Some(k[1])
\* the keys of the stable files after cursor c at clock t
StableAfter(files, c, t) ==
  {k \in (0..MaxUpTime) \X NameSet :
     Present(files, k) /\ KeyLess(c, k) /\ t - k[1] >= settle_sec}
\* a cursor moves from before key k to k or beyond
Passes(c1, c2, k) == KeyLess(c1, k) /\ KeyLeq(k, c2)
\* sftp_upload returns for the candidate in this step
Processes == upc = "upload" /\ Val(ucandkey) \in udone'

====
